---- MODULE Spec2Model ----
(***************************************************************************)
(* ProjectAllocator (TeamProfiler): the matching and gap-analysis core.    *)
(*                                                                         *)
(* A skill string is modelled as a sequence of one-character strings, so   *)
(* that lower(), strip() and the substring test of skills_match act on     *)
(* characters as the Python code does.                                     *)
(***************************************************************************)
EXTENDS Integers, Sequences, FiniteSets, TLC

VARIABLES
    pc,               \* position in the computation being run
    skill_a,          \* skills_match: first argument
    skill_b,          \* skills_match: second argument
    matched,          \* skills_match: returned value
    profiles,         \* list[TeamMemberProfile]
    project_spec,     \* ProjectSpec
    match_results,    \* list[MatchResult] returned by calculate_match_scores
    recommendations,  \* dict returned by get_recommended_assignments
    gap_analysis,     \* GapAnalysis returned by analyze_gaps
    normal_form,      \* normalize_skill: returned value
    api_key,          \* main: whether ANTHROPIC_API_KEY is set and not empty
    team_folder,      \* the folder args.team: whether it exists, its documents
    project_folder,   \* the folder args.project: whether it exists, its documents
    team_docs,        \* main: find_documents(args.team)
    project_docs,     \* main: find_documents(args.project)
    team_log,         \* main: per team document processed, what was printed
                      \* (OK or FAILED) and what the extraction service answered
    project_log,      \* main: per project document processed, what was printed
    combined_text,    \* main: the text of the project documents, combined
    spec_response,    \* main: the extraction service's answer on combined_text
    exit_status       \* the status the process has exited with, once it has

\* the variables of main() before the analysis
main_vars == <<api_key, team_folder, project_folder, team_docs, project_docs,
               team_log, project_log, combined_text, spec_response, exit_status>>

vars == <<pc, skill_a, skill_b, matched, profiles, project_spec,
          match_results, recommendations, gap_analysis, normal_form, main_vars>>

(***************************************************************************)
(* Bounds of the model.                                                    *)
(***************************************************************************)
\* longest generated skill string (characters) in the skills_match harness
MaxLen == 3

(***************************************************************************)
(* Generic helpers.                                                        *)
(***************************************************************************)
Range(s) == {s[i] : i \in DOMAIN s}

Min(S) == CHOOSE x \in S : \A y \in S : x <= y

Max(S) == CHOOSE x \in S : \A y \in S : x >= y

\* every sequence over S of length 0..n
SeqUpTo(S, n) == UNION {[1..k -> S] : k \in 0..n}

\* every sequence over S of length 0..n that holds no element twice
DistinctSeqUpTo(S, n) ==
    {s \in SeqUpTo(S, n) : \A i, j \in DOMAIN s : s[i] = s[j] => i = j}

(***************************************************************************)
(* The synonym table of skills_match (matcher.py:48-59), word by word.     *)
(***************************************************************************)
w_python == <<"p","y","t","h","o","n">>
w_python3 == <<"p","y","t","h","o","n","3">>
w_python_3 == <<"p","y","t","h","o","n"," ","3">>
w_python_programming == <<"p","y","t","h","o","n"," ","p","r","o","g","r","a","m","m","i","n","g">>
w_javascript == <<"j","a","v","a","s","c","r","i","p","t">>
w_js == <<"j","s">>
w_node == <<"n","o","d","e">>
w_nodejs == <<"n","o","d","e","j","s">>
w_node_dot_js == <<"n","o","d","e",".","j","s">>
w_project_management == <<"p","r","o","j","e","c","t"," ","m","a","n","a","g","e","m","e","n","t">>
w_pm == <<"p","m">>
w_pmp == <<"p","m","p">>
w_project_manager == <<"p","r","o","j","e","c","t"," ","m","a","n","a","g","e","r">>
w_stakeholder_management == <<"s","t","a","k","e","h","o","l","d","e","r"," ","m","a","n","a","g","e","m","e","n","t">>
w_stakeholder_engagement == <<"s","t","a","k","e","h","o","l","d","e","r"," ","e","n","g","a","g","e","m","e","n","t">>
w_client_management == <<"c","l","i","e","n","t"," ","m","a","n","a","g","e","m","e","n","t">>
w_data_analysis == <<"d","a","t","a"," ","a","n","a","l","y","s","i","s">>
w_data_analytics == <<"d","a","t","a"," ","a","n","a","l","y","t","i","c","s">>
w_analytics == <<"a","n","a","l","y","t","i","c","s">>
w_data_analyst == <<"d","a","t","a"," ","a","n","a","l","y","s","t">>
w_excel == <<"e","x","c","e","l">>
w_ms_excel == <<"m","s"," ","e","x","c","e","l">>
w_microsoft_excel == <<"m","i","c","r","o","s","o","f","t"," ","e","x","c","e","l">>
w_spreadsheets == <<"s","p","r","e","a","d","s","h","e","e","t","s">>
w_powerpoint == <<"p","o","w","e","r","p","o","i","n","t">>
w_ppt == <<"p","p","t">>
w_presentations == <<"p","r","e","s","e","n","t","a","t","i","o","n","s">>
w_ms_powerpoint == <<"m","s"," ","p","o","w","e","r","p","o","i","n","t">>
w_communication == <<"c","o","m","m","u","n","i","c","a","t","i","o","n">>
w_communications == <<"c","o","m","m","u","n","i","c","a","t","i","o","n","s">>
w_written_communication == <<"w","r","i","t","t","e","n"," ","c","o","m","m","u","n","i","c","a","t","i","o","n">>
w_verbal_communication == <<"v","e","r","b","a","l"," ","c","o","m","m","u","n","i","c","a","t","i","o","n">>
w_leadership == <<"l","e","a","d","e","r","s","h","i","p">>
w_team_leadership == <<"t","e","a","m"," ","l","e","a","d","e","r","s","h","i","p">>
w_people_leadership == <<"p","e","o","p","l","e"," ","l","e","a","d","e","r","s","h","i","p">>
w_lead == <<"l","e","a","d">>
w_strategy == <<"s","t","r","a","t","e","g","y">>
w_strategic_planning == <<"s","t","r","a","t","e","g","i","c"," ","p","l","a","n","n","i","n","g">>
w_strategic_thinking == <<"s","t","r","a","t","e","g","i","c"," ","t","h","i","n","k","i","n","g">>
w_strategist == <<"s","t","r","a","t","e","g","i","s","t">>

variations == <<
    [base |-> w_python, alts |-> <<w_python3, w_python_3, w_python_programming>>],
    [base |-> w_javascript, alts |-> <<w_js, w_node, w_nodejs, w_node_dot_js>>],
    [base |-> w_project_management, alts |-> <<w_pm, w_pmp, w_project_manager>>],
    [base |-> w_stakeholder_management, alts |-> <<w_stakeholder_engagement, w_client_management>>],
    [base |-> w_data_analysis, alts |-> <<w_data_analytics, w_analytics, w_data_analyst>>],
    [base |-> w_excel, alts |-> <<w_ms_excel, w_microsoft_excel, w_spreadsheets>>],
    [base |-> w_powerpoint, alts |-> <<w_ppt, w_presentations, w_ms_powerpoint>>],
    [base |-> w_communication, alts |-> <<w_communications, w_written_communication, w_verbal_communication>>],
    [base |-> w_leadership, alts |-> <<w_team_leadership, w_people_leadership, w_lead>>],
    [base |-> w_strategy, alts |-> <<w_strategic_planning, w_strategic_thinking, w_strategist>>]
>>

(***************************************************************************)
(* Other spellings the model's profiles and project specifications use.    *)
(***************************************************************************)
w_Python == <<"P","y","t","h","o","n">>
w_Excel == <<"E","x","c","e","l">>
w_SQL == <<"S","Q","L">>
w_sql == <<"s","q","l">>
w_Node_JS_padded == <<" ","N","o","d","e",".","J","S","\t">>
w_Team_Leadership == <<"T","e","a","m"," ","L","e","a","d","e","r","s","h","i","p">>
w_SQL_padded == <<" ","S","Q","L"," ">>
w_Python_padded == <<" ","P","y","t","h","o","n"," ">>
w_Leadership == <<"L","e","a","d","e","r","s","h","i","p">>
w_Strategy_padded == <<"\t","S","t","r","a","t","e","g","y">>

(***************************************************************************)
(* normalize_skill: skill.lower().strip()                                  *)
(***************************************************************************)
UpperCase == <<"A","B","C","D","E","F","G","H","I","J","K","L","M",
               "N","O","P","Q","R","S","T","U","V","W","X","Y","Z">>

LowerCase == <<"a","b","c","d","e","f","g","h","i","j","k","l","m",
               "n","o","p","q","r","s","t","u","v","w","x","y","z">>

\* the characters str.strip() removes (the ones the model's inputs use)
Whitespace == {" ", "\t", "\n"}

\* str.lower() on one character, as a table: capital |-> small letter
ToLower ==
    [c \in Range(UpperCase) |->
        LowerCase[CHOOSE i \in DOMAIN UpperCase : UpperCase[i] = c]]

LowerChar(c) == IF c \in DOMAIN ToLower THEN ToLower[c] ELSE c

\* str.lower()
Lower(s) == [i \in DOMAIN s |-> LowerChar(s[i])]

\* str.lstrip(): drop leading whitespace
RECURSIVE LStrip(_)
LStrip(s) ==
    IF s # << >> /\ Head(s) \in Whitespace THEN LStrip(Tail(s)) ELSE s

\* str.rstrip(): drop trailing whitespace
RECURSIVE RStrip(_)
RStrip(s) ==
    IF s # << >> /\ s[Len(s)] \in Whitespace
    THEN RStrip(SubSeq(s, 1, Len(s) - 1))
    ELSE s

\* variant of Strip that drops at most one whitespace character at each end
Strip_one_at_each_end(s) ==
    LET t == IF s # << >> /\ Head(s) \in Whitespace THEN Tail(s) ELSE s
    IN  IF t # << >> /\ t[Len(t)] \in Whitespace
        THEN SubSeq(t, 1, Len(t) - 1)
        ELSE t

\* str.strip(): drop leading and trailing whitespace, keep inner whitespace
Strip(s) == RStrip(LStrip(s))

normalize_skill(skill) == Strip(Lower(skill))

(***************************************************************************)
(* skills_match                                                            *)
(***************************************************************************)
\* Python's `a in b` on strings: a occurs in b as a contiguous run
StrIn(a, b) ==
    \E i \in 0..(Len(b) - Len(a)) : \A j \in 1..Len(a) : b[i + j] = a[j]

\* Python's `x in lst` on a list
ListIn(x, lst) == \E i \in DOMAIN lst : lst[i] = x

\* all_forms = [base] + alts, for each entry of the table
all_forms_of ==
    [k \in DOMAIN variations |-> <<variations[k].base>> \o variations[k].alts]

\* variant of variations_loop that gives up after the first entry it looks at
variations_loop_first_only(s1, s2, k) ==
    /\ k <= Len(variations)
    /\ ListIn(s1, all_forms_of[k])
    /\ ListIn(s2, all_forms_of[k])

\* the loop over variations.items(), from entry k on: True at the first entry
\* whose forms hold both strings
RECURSIVE variations_loop(_, _, _)
variations_loop(s1, s2, k) ==
    IF k > Len(variations) THEN FALSE
    ELSE IF ListIn(s1, all_forms_of[k]) /\ ListIn(s2, all_forms_of[k])
         THEN TRUE
         ELSE variations_loop(s1, s2, k + 1)

\* variant of skills_match that tests containment in one direction only
skills_match_one_way(skill1, skill2) ==
    LET s1 == normalize_skill(skill1)
        s2 == normalize_skill(skill2)
    IN  IF s1 = s2 THEN TRUE
        ELSE IF StrIn(s1, s2) THEN TRUE
        ELSE variations_loop(s1, s2, 1)

skills_match(skill1, skill2) ==
    LET s1 == normalize_skill(skill1)
        s2 == normalize_skill(skill2)
    IN  IF s1 = s2 THEN TRUE
        ELSE IF StrIn(s1, s2) \/ StrIn(s2, s1) THEN TRUE
        ELSE variations_loop(s1, s2, 1)

\* every table form, as written in the table
TableForms ==
    UNION {{variations[k].base} \cup Range(variations[k].alts) : k \in DOMAIN variations}

\* the skill strings of the model's profiles and project specifications, as
\* written and normalized
KnownSkills ==
    LET written == TableForms \cup
            {w_Python, w_Excel, w_SQL, w_sql, w_Node_JS_padded, w_Team_Leadership,
             w_SQL_padded, w_Python_padded, w_Leadership, w_Strategy_padded}
    IN  written \cup {normalize_skill(s) : s \in written}

\* skills_match on every pair of known skills, evaluated once
MatchOfKnown == [a \in KnownSkills |-> [b \in KnownSkills |-> skills_match(a, b)]]

\* a call of skills_match from the scoring and gap-analysis code: the value is
\* read from MatchOfKnown when both strings are known, and computed otherwise
call_skills_match(skill1, skill2) ==
    IF skill1 \in KnownSkills /\ skill2 \in KnownSkills
    THEN MatchOfKnown[skill1][skill2]
    ELSE skills_match(skill1, skill2)

(***************************************************************************)
(* calculate_match_score                                                   *)
(***************************************************************************)
\* pairs (m, n), n <= 200, where the double-precision product (m / n) * 100
\* falls just below the integer 100 * m / n, so that int() gives one less
\* than the integer quotient; there is none with n < 50
DoubleShortfall ==
    {<<29, 50>>, <<29, 100>>, <<57, 100>>, <<58, 100>>, <<87, 150>>,
     <<58, 200>>, <<114, 200>>, <<116, 200>>}

\* variant of percent_truncated that rounds to the nearest integer
percent_rounded(m, n) == (200 * m + n) \div (2 * n)

\* int((m / n) * 100) for 0 <= m <= n, n >= 1: truncation, not rounding
percent_truncated(m, n) ==
    IF <<m, n>> \in DoubleShortfall
    THEN ((100 * m) \div n) - 1
    ELSE (100 * m) \div n

\* min(a, b)
min(a, b) == IF a <= b THEN a ELSE b

\* variant of final_score without the cap at 100
final_score_uncapped(base_score, exp_bonus) == base_score + exp_bonus

\* final_score = min(base_score + exp_bonus, 100)
final_score(base_score, exp_bonus) == min(base_score + exp_bonus, 100)

\* variant of rationale_for whose bands start above the thresholds (> for >=)
rationale_for_above_threshold(score, n_matching, n_required) ==
    [band |-> IF score > 80 THEN "Strong match"
              ELSE IF score > 60 THEN "Good match"
              ELSE IF score > 40 THEN "Partial match"
              ELSE "Limited match",
     matching |-> n_matching,
     required |-> n_required]

\* the rationale f-strings: the band, then "M/N required skills"
rationale_for(score, n_matching, n_required) ==
    [band |-> IF score >= 80 THEN "Strong match"
              ELSE IF score >= 60 THEN "Good match"
              ELSE IF score >= 40 THEN "Partial match"
              ELSE "Limited match",
     matching |-> n_matching,
     required |-> n_required]

NoSkillsRationale == "No specific skills defined for this work stream"

\* variant of score_against_required that appends the normalized form of a
\* matched required skill, the missing list still comparing the skill as
\* written
score_against_required_normalized_matching(profile, work_stream) ==
    LET required == work_stream.required_skills
        all_member_skills == profile.skills \o profile.strengths
        matched_as_written ==
            SelectSeq(required,
                      LAMBDA req_skill :
                          \E i \in DOMAIN all_member_skills :
                              call_skills_match(req_skill, all_member_skills[i]))
        matching == [i \in DOMAIN matched_as_written |->
                        normalize_skill(matched_as_written[i])]
        missing == SelectSeq(required, LAMBDA s : ~ListIn(s, matching))
        score == final_score(percent_truncated(Len(matching), Len(required)),
                             min(profile.experience_years, 10))
    IN  [team_member |-> profile.name,
         work_stream |-> work_stream.name,
         score |-> score,
         matching_skills |-> matching,
         missing_skills |-> missing,
         rationale |-> rationale_for(score, Len(matching), Len(required))]

\* the body of calculate_match_score after the early return
score_against_required(profile, work_stream) ==
    LET required == work_stream.required_skills
        all_member_skills == profile.skills \o profile.strengths
        matching ==
            SelectSeq(required,
                      LAMBDA req_skill :
                          \E i \in DOMAIN all_member_skills :
                              call_skills_match(req_skill, all_member_skills[i]))
        missing == SelectSeq(required, LAMBDA s : ~ListIn(s, matching))
        base_score == IF required # << >>
                      THEN percent_truncated(Len(matching), Len(required))
                      ELSE 50
        exp_bonus == min(profile.experience_years, 10)
        score == final_score(base_score, exp_bonus)
    IN  [team_member |-> profile.name,
         work_stream |-> work_stream.name,
         score |-> score,
         matching_skills |-> matching,
         missing_skills |-> missing,
         rationale |-> rationale_for(score, Len(matching), Len(required))]

\* variant of calculate_match_score without the early return for an empty
\* required_skills list
calculate_match_score_no_early_return(profile, work_stream) ==
    score_against_required(profile, work_stream)

calculate_match_score(profile, work_stream) ==
    IF work_stream.required_skills = << >>
    THEN [team_member |-> profile.name,
          work_stream |-> work_stream.name,
          score |-> 50,
          matching_skills |-> << >>,
          missing_skills |-> << >>,
          rationale |-> NoSkillsRationale]
    ELSE score_against_required(profile, work_stream)

\* the inner loop of calculate_match_scores: one result per work stream
scores_of_profile(profile, work_streams) ==
    [j \in DOMAIN work_streams |-> calculate_match_score(profile, work_streams[j])]

\* the outer loop of calculate_match_scores, from profile i on
RECURSIVE scores_from(_, _, _)
scores_from(profile_list, spec, i) ==
    IF i > Len(profile_list) THEN << >>
    ELSE scores_of_profile(profile_list[i], spec.work_streams)
             \o scores_from(profile_list, spec, i + 1)

\* variant of calculate_match_scores with the loops swapped: work streams as
\* the outer loop, profiles as the inner loop
calculate_match_scores_ws_outer(profile_list, spec) ==
    LET P == Len(profile_list)
        W == Len(spec.work_streams)
    IN  [k \in 1..(P * W) |->
            calculate_match_score(profile_list[((k - 1) % P) + 1],
                                  spec.work_streams[((k - 1) \div P) + 1])]

calculate_match_scores(profile_list, spec) == scores_from(profile_list, spec, 1)

(***************************************************************************)
(* get_recommended_assignments                                             *)
(***************************************************************************)
\* variant of dict_set that leaves out a key whose value is the empty list
dict_set_unless_empty(d, key, value) ==
    IF value = << >> THEN d
    ELSE [k \in (DOMAIN d) \cup {key} |-> IF k = key THEN value ELSE d[k]]

\* d[key] = value on a dict (a function from its keys)
dict_set(d, key, value) ==
    [k \in (DOMAIN d) \cup {key} |-> IF k = key THEN value ELSE d[k]]

\* variant of insert_by_score that puts a result before the results of equal
\* score (an unstable sort)
insert_by_score_before_equals(sorted, r) ==
    LET k == Cardinality({i \in DOMAIN sorted : sorted[i].score > r.score})
    IN  SubSeq(sorted, 1, k) \o <<r>> \o SubSeq(sorted, k + 1, Len(sorted))

\* one step of list.sort(key=score, reverse=True): r goes after every result
\* whose score is >= its own (the sort is stable, also with reverse=True)
insert_by_score(sorted, r) ==
    LET k == Cardinality({i \in DOMAIN sorted : sorted[i].score >= r.score})
    IN  SubSeq(sorted, 1, k) \o <<r>> \o SubSeq(sorted, k + 1, Len(sorted))

\* ws_matches.sort(key=lambda x: x.score, reverse=True), results taken in order
RECURSIVE sort_by_score(_, _, _)
sort_by_score(results, i, sorted) ==
    IF i > Len(results) THEN sorted
    ELSE sort_by_score(results, i + 1, insert_by_score(sorted, results[i]))

\* the loop body: the recommended names for one work stream
recommended_for(results, ws) ==
    LET ws_matches == SelectSeq(results, LAMBDA r : r.work_stream = ws.name)
        sorted == sort_by_score(ws_matches, 1, << >>)
        kept == SelectSeq(sorted, LAMBDA m : m.score >= 50)
    IN  [i \in DOMAIN kept |-> kept[i].team_member]

\* the loop over project_spec.work_streams, from work stream j on
RECURSIVE recommend_from(_, _, _, _)
recommend_from(results, spec, j, recs) ==
    IF j > Len(spec.work_streams) THEN recs
    ELSE recommend_from(results, spec, j + 1,
             dict_set(recs, spec.work_streams[j].name,
                      recommended_for(results, spec.work_streams[j])))

\* profile_list is accepted and not read, as in the code
get_recommended_assignments(results, profile_list, spec) ==
    recommend_from(results, spec, 1, << >>)

(***************************************************************************)
(* analyze_gaps                                                            *)
(*                                                                         *)
(* A dict[str, list[str]] is a sequence of [key, values] records in        *)
(* insertion order, which is the order Python dicts iterate in.            *)
(***************************************************************************)
\* `key in d`
has_key(d, key) == \E i \in DOMAIN d : d[i].key = key

\* if key not in d: d[key] = []  followed by  d[key].append(value)
append_to_key(d, key, value) ==
    IF has_key(d, key)
    THEN [i \in DOMAIN d |->
             IF d[i].key = key
             THEN [key |-> key, values |-> Append(d[i].values, value)]
             ELSE d[i]]
    ELSE Append(d, [key |-> key, values |-> <<value>>])

\* list(d.keys())
keys(d) == [i \in DOMAIN d |-> d[i].key]

\* variant of add_required_skills that keys the map by the skill as written
RECURSIVE add_required_skills_raw(_, _, _)
add_required_skills_raw(d, ws, i) ==
    IF i > Len(ws.required_skills) THEN d
    ELSE add_required_skills_raw(
             append_to_key(d, ws.required_skills[i], ws.name), ws, i + 1)

\* the loop over ws.required_skills of one work stream, from skill i on
RECURSIVE add_required_skills(_, _, _)
add_required_skills(d, ws, i) ==
    IF i > Len(ws.required_skills) THEN d
    ELSE add_required_skills(
             append_to_key(d, normalize_skill(ws.required_skills[i]), ws.name),
             ws, i + 1)

\* the loop over project_spec.work_streams, from work stream j on
RECURSIVE add_work_streams(_, _, _)
add_work_streams(d, work_streams, j) ==
    IF j > Len(work_streams) THEN d
    ELSE add_work_streams(add_required_skills(d, work_streams[j], 1),
                          work_streams, j + 1)

\* variant of add_critical_skills that adds "Critical" to the sources of a
\* skill that is already a key
RECURSIVE add_critical_skills_appending(_, _, _)
add_critical_skills_appending(d, critical_skills, i) ==
    IF i > Len(critical_skills) THEN d
    ELSE add_critical_skills_appending(
             append_to_key(d, normalize_skill(critical_skills[i]), "Critical"),
             critical_skills, i + 1)

\* the loop over project_spec.critical_skills, from skill i on: a skill that
\* is already a key is left as it is
RECURSIVE add_critical_skills(_, _, _)
add_critical_skills(d, critical_skills, i) ==
    IF i > Len(critical_skills) THEN d
    ELSE LET normalized == normalize_skill(critical_skills[i])
         IN  add_critical_skills(
                 IF has_key(d, normalized) THEN d
                 ELSE Append(d, [key |-> normalized, values |-> <<"Critical">>]),
                 critical_skills, i + 1)

required_skills_map(spec) ==
    add_critical_skills(add_work_streams(<< >>, spec.work_streams, 1),
                        spec.critical_skills, 1)

\* the loop over one profile's skills + strengths, from skill i on
RECURSIVE add_profile_skills(_, _, _, _)
add_profile_skills(d, profile, all_skills, i) ==
    IF i > Len(all_skills) THEN d
    ELSE add_profile_skills(
             append_to_key(d, normalize_skill(all_skills[i]), profile.name),
             profile, all_skills, i + 1)

\* the loop over profiles, from profile p on
RECURSIVE add_profiles(_, _, _)
add_profiles(d, profile_list, p) ==
    IF p > Len(profile_list) THEN d
    ELSE add_profiles(
             add_profile_skills(d, profile_list[p],
                                profile_list[p].skills \o profile_list[p].strengths, 1),
             profile_list, p + 1)

team_skills_map(profile_list) == add_profiles(<< >>, profile_list, 1)

\* the inner loop over team_skills_map.items(): covered_by.extend(members) for
\* every team skill that matches req_skill, from team skill t on
RECURSIVE extend_covered_by(_, _, _, _)
extend_covered_by(covered_by, req_skill, team_map, t) ==
    IF t > Len(team_map) THEN covered_by
    ELSE extend_covered_by(
             IF call_skills_match(req_skill, team_map[t].key)
             THEN covered_by \o team_map[t].values
             ELSE covered_by,
             req_skill, team_map, t + 1)

\* variant of dedupe that keeps the list as it is
dedupe_nothing(lst, set_order) == lst

\* list(set(lst)): each element once, in the iteration order of the set, which
\* Python leaves unspecified; set_order lists the names in that order
dedupe(lst, set_order) == SelectSeq(set_order, LAMBDA n : ListIn(n, lst))

\* variant of classify_coverage with the "good" threshold off by one
classify_coverage_shifted(n_covered) ==
    IF n_covered = 0 THEN [level |-> "none", list |-> "uncovered"]
    ELSE IF n_covered = 1 THEN [level |-> "partial", list |-> "partial"]
    ELSE IF n_covered <= 3 THEN [level |-> "good", list |-> "well_covered"]
    ELSE [level |-> "strong", list |-> "well_covered"]

\* variant of classify_coverage whose last branch appends the skill to no list
classify_coverage_strong_unlisted(n_covered) ==
    IF n_covered = 0 THEN [level |-> "none", list |-> "uncovered"]
    ELSE IF n_covered = 1 THEN [level |-> "partial", list |-> "partial"]
    ELSE IF n_covered = 2 THEN [level |-> "good", list |-> "well_covered"]
    ELSE [level |-> "strong", list |-> "no list"]

\* the if/elif chain on len(covered_by): the level, and the list the skill is
\* appended to in the same branch
classify_coverage(n_covered) ==
    IF n_covered = 0 THEN [level |-> "none", list |-> "uncovered"]
    ELSE IF n_covered = 1 THEN [level |-> "partial", list |-> "partial"]
    ELSE IF n_covered = 2 THEN [level |-> "good", list |-> "well_covered"]
    ELSE [level |-> "strong", list |-> "well_covered"]

\* the coverage loop over required_skills_map.items(), from required skill r
\* on; acc holds skill_coverage, uncovered, partial and well_covered so far
RECURSIVE coverage_loop(_, _, _, _, _)
coverage_loop(acc, req_map, team_map, set_order, r) ==
    IF r > Len(req_map) THEN acc
    ELSE LET req_skill == req_map[r].key
             covered_by ==
                 dedupe(extend_covered_by(<< >>, req_skill, team_map, 1), set_order)
             branch == classify_coverage(Len(covered_by))
             entry == [skill |-> req_skill,
                       required_by |-> req_map[r].values,
                       covered_by |-> covered_by,
                       coverage_level |-> branch.level]
         IN  coverage_loop(
                 [skill_coverage |-> Append(acc.skill_coverage, entry),
                  uncovered |-> IF branch.list = "uncovered"
                                THEN Append(acc.uncovered, req_skill)
                                ELSE acc.uncovered,
                  partial |-> IF branch.list = "partial"
                              THEN Append(acc.partial, req_skill)
                              ELSE acc.partial,
                  well_covered |-> IF branch.list = "well_covered"
                                   THEN Append(acc.well_covered, req_skill)
                                   ELSE acc.well_covered],
                 req_map, team_map, set_order, r + 1)

\* number of team strengths kept: team_strengths[:10]
TopStrengths == 10

\* the inner loop of the team-strengths pass: some required skill matches
is_required(team_skill, req_map) ==
    \E r \in DOMAIN req_map : call_skills_match(team_skill, req_map[r].key)

\* variant of truncate_strengths that keeps the whole list
truncate_nothing(lst) == lst

\* team_strengths[:10]
truncate_strengths(lst) == SubSeq(lst, 1, min(Len(lst), TopStrengths))

analyze_gaps(profile_list, spec, set_order) ==
    LET req_map == required_skills_map(spec)
        team_map == team_skills_map(profile_list)
        covered == coverage_loop(
                       [skill_coverage |-> << >>, uncovered |-> << >>,
                        partial |-> << >>, well_covered |-> << >>],
                       req_map, team_map, set_order, 1)
        team_strengths ==
            SelectSeq(keys(team_map), LAMBDA team_skill : ~is_required(team_skill, req_map))
    IN  [all_required_skills |-> keys(req_map),
         skill_coverage |-> covered.skill_coverage,
         uncovered_skills |-> covered.uncovered,
         partially_covered |-> covered.partial,
         well_covered |-> covered.well_covered,
         team_strengths |-> truncate_strengths(team_strengths)]

(***************************************************************************)
(* Inputs of the skills_match harness.                                     *)
(***************************************************************************)
\* characters of the generated short strings: two letters, a capital, a blank
Alphabet == {"j", "s", "J", " "}


SkillStrings ==
    SeqUpTo(Alphabet, MaxLen) \cup TableForms
        \cup {w_Python, w_Excel, w_SQL, w_sql, w_Node_JS_padded, w_Team_Leadership}

\* no answer of the extraction service
NoResponse == [kind |-> "none", data |-> << >>]

\* main() is not the computation being run
MainNotRun ==
    /\ api_key = TRUE
    /\ team_folder = [exists |-> FALSE, documents |-> << >>]
    /\ project_folder = [exists |-> FALSE, documents |-> << >>]
    /\ team_docs = << >>
    /\ project_docs = << >>
    /\ team_log = << >>
    /\ project_log = << >>
    /\ combined_text = << >>
    /\ spec_response = NoResponse
    /\ exit_status = << >>

\* values of the variables a computation does not use
NoProjectSpec ==
    [project_name |-> "", work_streams |-> << >>, critical_skills |-> << >>]

NoGapAnalysis ==
    [all_required_skills |-> << >>, skill_coverage |-> << >>,
     uncovered_skills |-> << >>, partially_covered |-> << >>,
     well_covered |-> << >>, team_strengths |-> << >>]

(***************************************************************************)
(* SpecSkills: skills_match applied to a pair of strings.                  *)
(***************************************************************************)
InitSkills ==
    /\ pc = "skills_match"
    /\ skill_a \in SkillStrings
    /\ skill_b \in SkillStrings
    /\ matched = "unset"
    /\ normal_form = << >>
    /\ MainNotRun
    /\ profiles = << >>
    /\ project_spec = NoProjectSpec
    /\ match_results = << >>
    /\ recommendations = << >>
    /\ gap_analysis = NoGapAnalysis

SkillsMatch ==
    /\ pc = "skills_match"
    /\ matched' = skills_match(skill_a, skill_b)
    /\ pc' = "skills_match_done"
    /\ UNCHANGED <<skill_a, skill_b, profiles, project_spec, match_results,
                   recommendations, gap_analysis>>
    /\ UNCHANGED <<normal_form, main_vars>>

NextSkills == SkillsMatch

SpecSkills == InitSkills /\ [][NextSkills]_vars

(***************************************************************************)
(* SpecNormalize: normalize_skill applied to a string.                     *)
(***************************************************************************)
\* characters of the strings normalized: a letter in both cases, a blank, a
\* tab and a dot
NormalizeAlphabet == {"a", "A", " ", "\t", "."}

NormalizeStrings ==
    SeqUpTo(NormalizeAlphabet, MaxLen)
        \cup {w_Node_JS_padded, w_Team_Leadership, w_SQL_padded, w_python_3}

InitNormalize ==
    /\ pc = "normalize_skill"
    /\ skill_a \in NormalizeStrings
    /\ skill_b = << >>
    /\ matched = "unset"
    /\ normal_form = << >>
    /\ MainNotRun
    /\ profiles = << >>
    /\ project_spec = NoProjectSpec
    /\ match_results = << >>
    /\ recommendations = << >>
    /\ gap_analysis = NoGapAnalysis

NormalizeSkill ==
    /\ pc = "normalize_skill"
    /\ normal_form' = normalize_skill(skill_a)
    /\ pc' = "normalize_skill_done"
    /\ UNCHANGED <<skill_a, skill_b, matched, profiles, project_spec,
                   match_results, recommendations, gap_analysis>>
    /\ UNCHANGED main_vars

NextNormalize == NormalizeSkill

SpecNormalize == InitNormalize /\ [][NextNormalize]_vars

\* the spec's worked example: Alice, skills ["Python","Excel"], 6 years,
\* against required skills ["python","excel","SQL"]
ExampleProfile ==
    [name |-> "Alice", skills |-> <<w_Python, w_Excel>>, strengths |-> << >>,
     experience_years |-> 6]

ExampleWorkStream ==
    [name |-> "Analysis", required_skills |-> <<w_python, w_excel, w_SQL>>]

(***************************************************************************)
(* SpecScore: calculate_match_scores on one profile and one work stream.   *)
(***************************************************************************)
\* longest skills list of a generated profile
MaxSkills == 2

\* longest strengths list of a generated profile
MaxStrengths == 1

\* longest required_skills list of a generated work stream
MaxRequired == 4

\* largest experience_years of a generated profile (beyond the bonus cap)
MaxYears == 11

\* below zero, none, 5 (which brings the base 75 to the band threshold 80),
\* the example's 6, and more than the bonus cap (which brings 50 to 60)
ExperienceYears == {-1, 0, 5, 6, MaxYears}

ScoreProfiles ==
    {[name |-> "Alice", skills |-> s, strengths |-> t, experience_years |-> y] :
        s \in SeqUpTo({w_Python, w_Excel, w_Team_Leadership}, MaxSkills),
        t \in SeqUpTo({w_sql}, MaxStrengths),
        y \in ExperienceYears}

\* the example's work stream, and every list of up to MaxRequired skills drawn
\* from python, the same in another spelling, and SQL
ScoreWorkStreams ==
    {ExampleWorkStream} \cup
    {[name |-> "Analysis", required_skills |-> r] :
        r \in SeqUpTo({w_python, w_Python_padded, w_SQL}, MaxRequired)}

InitScore ==
    /\ pc = "calculate_match_scores"
    /\ \E p \in ScoreProfiles : profiles = <<p>>
    /\ \E ws \in ScoreWorkStreams :
           project_spec = [project_name |-> "Example", work_streams |-> <<ws>>,
                           critical_skills |-> << >>]
    /\ match_results = << >>
    /\ recommendations = << >>
    /\ gap_analysis = NoGapAnalysis
    /\ skill_a = << >>
    /\ skill_b = << >>
    /\ matched = "unset"
    /\ normal_form = << >>
    /\ MainNotRun

\* profiler.py:171  match_results = calculate_match_scores(profiles, project_spec)
CalculateMatchScores ==
    /\ pc = "calculate_match_scores"
    /\ match_results' = calculate_match_scores(profiles, project_spec)
    /\ pc' = "analyze_gaps"
    /\ UNCHANGED <<skill_a, skill_b, matched, profiles, project_spec,
                   recommendations, gap_analysis>>
    /\ UNCHANGED <<normal_form, main_vars>>

NextScore == CalculateMatchScores

SpecScore == InitScore /\ [][NextScore]_vars

(***************************************************************************)
(* Spec: the analysis of main() on a team and a project specification:     *)
(* calculate_match_scores, analyze_gaps, then generate_report, which calls *)
(* get_recommended_assignments.                                            *)
(***************************************************************************)
\* longest list of profiles (each document of the team folder gives one)
MaxProfiles == 3

\* longest list of work streams (their names are unique within a project)
MaxWorkStreams == 2


\* Alice is the spec's example profile; the second Alice is another person of
\* the same name; Carol holds more than TopStrengths skills
PoolProfiles ==
    {ExampleProfile,
     [name |-> "Bob", skills |-> <<w_leadership, w_SQL_padded>>,
      strengths |-> <<w_Excel>>, experience_years |-> 0],
     [name |-> "Carol",
      skills |-> <<w_Team_Leadership, w_strategy, w_communication, w_powerpoint,
                   w_javascript, w_data_analysis, w_project_management,
                   w_stakeholder_management, w_ppt, w_node_dot_js>>,
      strengths |-> <<w_pmp, w_ms_excel, w_strategist, w_presentations,
                      w_Node_JS_padded, w_analytics>>,
      experience_years |-> 0],
     [name |-> "Alice", skills |-> << >>, strengths |-> << >>,
      experience_years |-> MaxYears]}

PoolWorkStreams ==
    {ExampleWorkStream,
     [name |-> "Delivery",
      required_skills |-> <<w_Python_padded, w_leadership, w_Leadership>>],
     [name |-> "Governance", required_skills |-> << >>]}

PoolCriticalSkills ==
    {<< >>, <<w_sql>>, <<w_strategy, w_sql, w_Strategy_padded>>}

\* the orders in which a Python set of the names in S may iterate
SetOrders(S) ==
    {o \in [1..Cardinality(S) -> S] : \A i, j \in DOMAIN o : o[i] = o[j] => i = j}

Init ==
    /\ pc = "calculate_match_scores"
    /\ profiles \in DistinctSeqUpTo(PoolProfiles, MaxProfiles)
    /\ \E wss \in DistinctSeqUpTo(PoolWorkStreams, MaxWorkStreams),
          cs \in PoolCriticalSkills :
           project_spec = [project_name |-> "Example", work_streams |-> wss,
                           critical_skills |-> cs]
    /\ match_results = << >>
    /\ recommendations = << >>
    /\ gap_analysis = NoGapAnalysis
    /\ skill_a = << >>
    /\ skill_b = << >>
    /\ matched = "unset"
    /\ normal_form = << >>
    /\ MainNotRun

\* profiler.py:175  gap_analysis = analyze_gaps(profiles, project_spec)
AnalyzeGaps ==
    /\ pc = "analyze_gaps"
    /\ \E set_order \in SetOrders({profiles[i].name : i \in DOMAIN profiles}) :
           gap_analysis' = analyze_gaps(profiles, project_spec, set_order)
    /\ pc' = "generate_report"
    /\ UNCHANGED <<skill_a, skill_b, matched, profiles, project_spec,
                   match_results, recommendations>>
    /\ UNCHANGED <<normal_form, main_vars>>

\* profiler.py:185 generate_report(...), which sets (generator.py:191)
\* recommendations = get_recommended_assignments(match_results, profiles, project_spec)
GenerateReport ==
    /\ pc = "generate_report"
    /\ recommendations' = get_recommended_assignments(match_results, profiles, project_spec)
    /\ pc' = "done"
    /\ UNCHANGED <<skill_a, skill_b, matched, profiles, project_spec,
                   match_results, gap_analysis>>
    /\ UNCHANGED <<normal_form, main_vars>>

Next == CalculateMatchScores \/ AnalyzeGaps \/ GenerateReport

Spec == Init /\ [][Next]_vars

(***************************************************************************)
(* SpecGaps: analyze_gaps on a project whose work streams may include one  *)
(* that is itself named "Critical".                                        *)
(***************************************************************************)
GapWorkStreams ==
    PoolWorkStreams \cup
        {[name |-> "Critical", required_skills |-> <<w_strategy, w_SQL_padded>>]}

GapProfiles == {<< >>, <<ExampleProfile>>}

InitGaps ==
    /\ pc = "analyze_gaps"
    /\ profiles \in GapProfiles
    /\ \E wss \in DistinctSeqUpTo(GapWorkStreams, MaxWorkStreams),
          cs \in PoolCriticalSkills :
           project_spec = [project_name |-> "Example", work_streams |-> wss,
                           critical_skills |-> cs]
    /\ match_results = calculate_match_scores(profiles, project_spec)
    /\ recommendations = << >>
    /\ gap_analysis = NoGapAnalysis
    /\ skill_a = << >>
    /\ skill_b = << >>
    /\ matched = "unset"
    /\ normal_form = << >>
    /\ MainNotRun

NextGaps == AnalyzeGaps

SpecGaps == InitGaps /\ [][NextGaps]_vars

(***************************************************************************)
(* The extractors: what extract_profile and extract_project_spec make of   *)
(* the extraction service's answer.  An answer is either text that is not  *)
(* parseable JSON (kind "text") or a JSON object (kind "json", data the    *)
(* object as a function from its keys).                                    *)
(***************************************************************************)
\* dict.get(key, default)
get(data, key, default) == IF key \in DOMAIN data THEN data[key] ELSE default

\* the fallback dict of extract_profile (the keys the model's profiles have)
FallbackProfileData ==
    [name |-> "Unknown", skills |-> << >>, experience_years |-> 0,
     strengths |-> << >>]

\* variant of extract_profile without the except branch's fallback dict: the
\* name of a profile stays empty when the answer gives none
extract_profile_unnamed(response) ==
    LET data == response.data
    IN  [name |-> get(data, "name", ""),
         skills |-> get(data, "skills", << >>),
         experience_years |-> get(data, "experience_years", 0),
         strengths |-> get(data, "strengths", << >>)]

\* extract_profile, from the answer of the service on
extract_profile(response) ==
    LET data == IF response.kind = "json" THEN response.data
                ELSE FallbackProfileData
    IN  [name |-> get(data, "name", "Unknown"),
         skills |-> get(data, "skills", << >>),
         experience_years |-> get(data, "experience_years", 0),
         strengths |-> get(data, "strengths", << >>)]

\* the fallback dict of extract_project_spec (the keys the model's project
\* specifications have)
FallbackSpecData ==
    [project_name |-> "Unknown Project", work_streams |-> << >>,
     critical_skills |-> << >>]

\* extract_project_spec, from the answer of the service on
extract_project_spec(response) ==
    LET data == IF response.kind = "json" THEN response.data
                ELSE FallbackSpecData
        ws_list == get(data, "work_streams", << >>)
    IN  [project_name |-> get(data, "project_name", "Unknown Project"),
         work_streams |->
             [i \in DOMAIN ws_list |->
                 [name |-> get(ws_list[i], "name", "Unnamed"),
                  required_skills |-> get(ws_list[i], "required_skills", << >>)]],
         critical_skills |-> get(data, "critical_skills", << >>)]

(***************************************************************************)
(* SpecMain: main() of profiler.py, from the check of the API key to the   *)
(* report.  A folder is given by whether it exists and by the documents    *)
(* find_documents returns for it (the supported files, sorted); a document *)
(* is a file that parse_document either reads, giving its text, or raises  *)
(* on.                                                                     *)
(***************************************************************************)
\* most documents in a folder
MaxDocs == 2

\* names of the documents of a folder, in sorted order
DocNames == <<<<"a">>, <<"b">>, <<"c">>, <<"d">>>>

\* texts parse_document returns for a project document: blank, and not blank
ProjectTexts == {<<" ", "\n">>, <<"s", "p", "e", "c">>}

\* the lists of up to MaxDocs documents whose texts, where readable, are
\* drawn from Texts
DocLists(Texts) ==
    UNION {
        {[i \in 1..k |-> [name |-> DocNames[i],
                          readable |-> kinds[i].readable,
                          text |-> kinds[i].text]] :
            kinds \in [1..k -> {[readable |-> FALSE, text |-> << >>]} \cup
                               {[readable |-> TRUE, text |-> x] : x \in Texts}]} :
        k \in 0..MaxDocs}

Folders(Texts) ==
    {[exists |-> FALSE, documents |-> << >>]} \cup
    {[exists |-> TRUE, documents |-> docs] : docs \in DocLists(Texts)}

\* answers of the extraction service to a team document: text that is not
\* JSON, and the example profile as a JSON object without the key "strengths"
ProfileResponses ==
    {[kind |-> "text", data |-> << >>],
     [kind |-> "json",
      data |-> [name |-> "Alice", skills |-> <<w_Python, w_Excel>>,
                experience_years |-> 6]]}

\* answers of the extraction service to the project text: text that is not
\* JSON, a project of two work streams (the second without a name) and a
\* critical skill, and an object without the key "work_streams"
SpecResponses ==
    {[kind |-> "text", data |-> << >>],
     [kind |-> "json",
      data |-> [project_name |-> "Migration",
                work_streams |->
                    <<[name |-> "Analysis",
                       required_skills |-> <<w_python, w_excel, w_SQL>>],
                      [required_skills |-> <<w_leadership>>]>>,
                critical_skills |-> <<w_sql>>]],
     [kind |-> "json",
      data |-> [project_name |-> "Strategy", critical_skills |-> <<w_strategy>>]]}

InitMain ==
    /\ pc = "main"
    /\ api_key \in BOOLEAN
    /\ team_folder \in Folders({<<"c", "v">>})
    /\ project_folder \in Folders(ProjectTexts)
    /\ team_docs = << >>
    /\ project_docs = << >>
    /\ team_log = << >>
    /\ project_log = << >>
    /\ combined_text = << >>
    /\ spec_response = NoResponse
    /\ exit_status = << >>
    /\ profiles = << >>
    /\ project_spec = NoProjectSpec
    /\ match_results = << >>
    /\ recommendations = << >>
    /\ gap_analysis = NoGapAnalysis
    /\ skill_a = << >>
    /\ skill_b = << >>
    /\ matched = "unset"
    /\ normal_form = << >>

\* the variables of the analysis and of the function harnesses
analysis_vars == <<skill_a, skill_b, matched, normal_form, match_results,
                   recommendations, gap_analysis>>

\* sys.exit(1), and equally an exception that main() does not catch
Exit1 ==
    /\ pc' = "exit"
    /\ exit_status' = <<1>>

\* profiler.py:89-95  api_key = os.getenv(...); if not api_key: sys.exit(1)
CheckApiKey ==
    /\ pc = "main"
    /\ IF ~api_key THEN Exit1
       ELSE pc' = "check_folders" /\ UNCHANGED exit_status
    /\ UNCHANGED <<api_key, team_folder, project_folder, team_docs, project_docs,
                   team_log, project_log, combined_text, spec_response>>
    /\ UNCHANGED <<profiles, project_spec, analysis_vars>>

\* profiler.py:100-109  both folders must exist
CheckFolders ==
    /\ pc = "check_folders"
    /\ IF ~team_folder.exists \/ ~project_folder.exists THEN Exit1
       ELSE pc' = "find_documents" /\ UNCHANGED exit_status
    /\ UNCHANGED <<api_key, team_folder, project_folder, team_docs, project_docs,
                   team_log, project_log, combined_text, spec_response>>
    /\ UNCHANGED <<profiles, project_spec, analysis_vars>>

\* profiler.py:111-123  find_documents on both folders; each must give some
FindDocuments ==
    /\ pc = "find_documents"
    /\ team_docs' = team_folder.documents
    /\ project_docs' = project_folder.documents
    /\ IF team_docs' = << >> \/ project_docs' = << >> THEN Exit1
       ELSE pc' = "team_documents" /\ UNCHANGED exit_status
    /\ UNCHANGED <<api_key, team_folder, project_folder,
                   team_log, project_log, combined_text, spec_response>>
    /\ UNCHANGED <<profiles, project_spec, analysis_vars>>

\* profiler.py:133-141  one pass of `for doc in team_docs`: parse_document or
\* extract_profile may raise, which prints FAILED and goes on to the next
\* document; otherwise the profile is appended
ProcessTeamDocument ==
    /\ pc = "team_documents"
    /\ Len(team_log) < Len(team_docs)
    /\ LET doc == team_docs[Len(team_log) + 1]
           failed == [doc |-> doc.name, printed |-> "FAILED", response |-> NoResponse]
       IN  \/ /\ ~doc.readable
              /\ team_log' = Append(team_log, failed)
              /\ UNCHANGED profiles
           \/ /\ doc.readable
              /\ \/ /\ team_log' = Append(team_log, failed)
                    /\ UNCHANGED profiles
                 \/ \E response \in ProfileResponses :
                        /\ profiles' = Append(profiles, extract_profile(response))
                        /\ team_log' = Append(team_log,
                               [doc |-> doc.name, printed |-> "OK",
                                response |-> response])
    /\ UNCHANGED <<pc, api_key, team_folder, project_folder, team_docs, project_docs,
                   project_log, combined_text, spec_response, exit_status>>
    /\ UNCHANGED <<project_spec, analysis_vars>>

\* profiler.py:143-145  if not profiles: sys.exit(1)
CheckProfiles ==
    /\ pc = "team_documents"
    /\ Len(team_log) = Len(team_docs)
    /\ IF profiles = << >> THEN Exit1
       ELSE pc' = "project_documents" /\ UNCHANGED exit_status
    /\ UNCHANGED <<api_key, team_folder, project_folder, team_docs, project_docs,
                   team_log, project_log, combined_text, spec_response>>
    /\ UNCHANGED <<profiles, project_spec, analysis_vars>>

\* f"\n\n--- From {doc.name} ---\n\n"
Header(name) ==
    <<"\n", "\n", "-", "-", "-", " ", "F", "r", "o", "m", " ">> \o name
        \o <<" ", "-", "-", "-", "\n", "\n">>

\* profiler.py:152-159  one pass of `for doc in project_docs`: the header and
\* the text are added to combined_text unless parse_document raises
ProcessProjectDocument ==
    /\ pc = "project_documents"
    /\ Len(project_log) < Len(project_docs)
    /\ LET doc == project_docs[Len(project_log) + 1]
       IN  IF doc.readable
           THEN /\ combined_text' = combined_text \o Header(doc.name) \o doc.text
                /\ project_log' = Append(project_log,
                                         [doc |-> doc.name, printed |-> "OK"])
           ELSE /\ project_log' = Append(project_log,
                                         [doc |-> doc.name, printed |-> "FAILED"])
                /\ UNCHANGED combined_text
    /\ UNCHANGED <<pc, api_key, team_folder, project_folder, team_docs, project_docs,
                   team_log, spec_response, exit_status>>
    /\ UNCHANGED <<profiles, project_spec, analysis_vars>>

\* profiler.py:161-163  if not combined_text.strip(): sys.exit(1)
CheckCombinedText ==
    /\ pc = "project_documents"
    /\ Len(project_log) = Len(project_docs)
    /\ IF Strip(combined_text) = << >> THEN Exit1
       ELSE pc' = "extract_project_spec" /\ UNCHANGED exit_status
    /\ UNCHANGED <<api_key, team_folder, project_folder, team_docs, project_docs,
                   team_log, project_log, combined_text, spec_response>>
    /\ UNCHANGED <<profiles, project_spec, analysis_vars>>

\* profiler.py:166  project_spec = extract_project_spec(combined_text, ...),
\* outside any try: if the call of the service raises, main() ends there
ExtractProjectSpec ==
    /\ pc = "extract_project_spec"
    /\ \/ /\ Exit1
          /\ UNCHANGED <<project_spec, spec_response>>
       \/ \E response \in SpecResponses :
              /\ spec_response' = response
              /\ project_spec' = extract_project_spec(response)
              /\ pc' = "calculate_match_scores"
              /\ UNCHANGED exit_status
    /\ UNCHANGED <<api_key, team_folder, project_folder, team_docs, project_docs,
                   team_log, project_log, combined_text>>
    /\ UNCHANGED <<profiles, analysis_vars>>

NextMain ==
    \/ CheckApiKey
    \/ CheckFolders
    \/ FindDocuments
    \/ ProcessTeamDocument
    \/ CheckProfiles
    \/ ProcessProjectDocument
    \/ CheckCombinedText
    \/ ExtractProjectSpec
    \/ CalculateMatchScores
    \/ AnalyzeGaps
    \/ GenerateReport

SpecMain == InitMain /\ [][NextMain]_vars

(***************************************************************************)
(* Claims about skills_match (checked under SpecSkills).                   *)
(***************************************************************************)
\* C4: skills_match is symmetric: the value returned for (a, b) is the value
\* skills_match gives for the swapped pair (b, a), for all strings a and b.
C4_SkillsMatchSymmetric ==
    pc = "skills_match_done" => matched = skills_match(skill_b, skill_a)

\* C4 witness: a pair matched through containment of a strictly shorter string,
\* the one test that reads differently in the two directions.
C4_Witness ==
    /\ pc = "skills_match_done"
    /\ matched = TRUE
    /\ Len(normalize_skill(skill_a)) > Len(normalize_skill(skill_b))
    /\ Len(normalize_skill(skill_b)) > 0

\* x occurs in y: y is some prefix, then x, then some suffix
IsSubstring(x, y) ==
    \E i \in 0..Len(y) : \E j \in i..Len(y) : SubSeq(y, i + 1, j) = x

\* both strings are forms (canonical term or alternate) of one table entry
SameTableEntry(x, y) ==
    \E k \in DOMAIN variations :
        {x, y} \subseteq ({variations[k].base} \cup Range(variations[k].alts))

\* C5: skills_match returns true if and only if the normalized strings are
\* equal, or one is a substring of the other (the empty string included), or
\* both are forms of the same synonym-table entry; otherwise false.
C5_SkillsMatchCharacterised ==
    pc = "skills_match_done" =>
        LET n1 == normalize_skill(skill_a)
            n2 == normalize_skill(skill_b)
        IN  matched = (\/ n1 = n2
                       \/ IsSubstring(n1, n2)
                       \/ IsSubstring(n2, n1)
                       \/ SameTableEntry(n1, n2))

\* C5 witness: a pair matched by the synonym table alone (not equal, neither
\* contained in the other), the inputs differing from the table's spelling.
C5_Witness ==
    /\ pc = "skills_match_done"
    /\ matched = TRUE
    /\ skill_a # normalize_skill(skill_a)
    /\ normalize_skill(skill_a) # normalize_skill(skill_b)
    /\ ~IsSubstring(normalize_skill(skill_a), normalize_skill(skill_b))
    /\ ~IsSubstring(normalize_skill(skill_b), normalize_skill(skill_a))


(***************************************************************************)
(* Claims about calculate_match_score (checked under SpecScore).           *)
(***************************************************************************)
\* the one (profile, work stream) pair of SpecScore has been scored
PairScored ==
    /\ pc = "analyze_gaps"
    /\ Len(profiles) = 1
    /\ Len(project_spec.work_streams) = 1
    /\ Len(match_results) = 1

\* number of required skills (counted by position) that some pooled skill of
\* the profile fuzzy-matches
MatchedCount(profile, work_stream) ==
    Cardinality({i \in DOMAIN work_stream.required_skills :
        \E s \in Range(profile.skills) \cup Range(profile.strengths) :
            call_skills_match(work_stream.required_skills[i], s)})

\* C1: for every profile with experience_years >= 0 (0 included) and every
\* work stream (0, 1 or N required skills), the score of the MatchResult is an
\* integer in 0..100.
C1_ScoreInRange ==
    PairScored /\ profiles[1].experience_years >= 0
        => match_results[1].score \in 0..100

\* C1 witness: a scored pair, experience_years >= 0, whose base score plus
\* experience bonus exceeds 100, so that the cap decides the score.
C1_Witness ==
    /\ PairScored
    /\ profiles[1].experience_years > 0
    /\ project_spec.work_streams[1].required_skills # << >>
    /\ MatchedCount(profiles[1], project_spec.work_streams[1])
           = Len(project_spec.work_streams[1].required_skills)
    /\ match_results[1].score = 100

\* 100 * m / n rounded to the nearest integer
RoundedPercent(m, n) == (200 * m + n) \div (2 * n)

\* C2 as stated: with N >= 1 required skills of which M are matched,
\* score = min(round(100 * M / N) + min(experience_years, 10), 100); the
\* example pair gets base 67 and score 73.
C2_Original_RoundedBase ==
    PairScored /\ project_spec.work_streams[1].required_skills # << >> =>
        LET p == profiles[1]
            ws == project_spec.work_streams[1]
            M == MatchedCount(p, ws)
            N == Len(ws.required_skills)
            bonus == IF p.experience_years <= 10 THEN p.experience_years ELSE 10
            total == RoundedPercent(M, N) + bonus
        IN  /\ match_results[1].score = (IF total <= 100 THEN total ELSE 100)
            /\ (p = ExampleProfile /\ ws = ExampleWorkStream
                    => match_results[1].score = 73)

\* C2 amended: with N >= 1 required skills of which M are matched,
\* base_score = (100 * M) div N (the quotient truncated, never rounded up) and
\* score = min(base_score + min(experience_years, 10), 100); the example pair
\* gets base 66 and score 72.
C2_TruncatedBase ==
    PairScored /\ project_spec.work_streams[1].required_skills # << >> =>
        LET p == profiles[1]
            ws == project_spec.work_streams[1]
            M == MatchedCount(p, ws)
            N == Len(ws.required_skills)
            bonus == IF p.experience_years <= 10 THEN p.experience_years ELSE 10
            total == ((100 * M) \div N) + bonus
        IN  /\ match_results[1].score = (IF total <= 100 THEN total ELSE 100)
            /\ (p = ExampleProfile /\ ws = ExampleWorkStream
                    => match_results[1].score = 72)

\* C2 witness: the example pair has been scored (2 of 3 matched, 6 years).
C2_Witness ==
    /\ PairScored
    /\ profiles[1] = ExampleProfile
    /\ project_spec.work_streams[1] = ExampleWorkStream
    /\ Len(match_results[1].matching_skills) = 2

\* C3: for a work stream with empty required_skills the result has score
\* exactly 50 and empty matching_skills and missing_skills, whatever the
\* profile's skills, strengths and experience_years (no bonus is added).
C3_EmptyRequiredScores50 ==
    PairScored /\ project_spec.work_streams[1].required_skills = << >> =>
        /\ match_results[1].score = 50
        /\ match_results[1].matching_skills = << >>
        /\ match_results[1].missing_skills = << >>

\* C3 witness: a profile with skills, strengths and more than 10 years scored
\* against a work stream without required skills.
C3_Witness ==
    /\ PairScored
    /\ project_spec.work_streams[1].required_skills = << >>
    /\ profiles[1].skills # << >>
    /\ profiles[1].strengths # << >>
    /\ profiles[1].experience_years > 10
    /\ match_results[1].score = 50

(***************************************************************************)
(* Claims about get_recommended_assignments and analyze_gaps (under Spec). *)
(***************************************************************************)
\* C6: for each work stream, the recommended list is exactly the team_member
\* names of the match results for that work stream with score >= 50, by score
\* descending, results of equal score in the order of the results list; no
\* result with score < 50 contributes an entry.
C6_RecommendedSortedFiltered ==
    pc = "done" =>
        \A j \in DOMAIN project_spec.work_streams :
            LET w == project_spec.work_streams[j].name
                kept == {i \in DOMAIN match_results :
                            /\ match_results[i].work_stream = w
                            /\ match_results[i].score >= 50}
                \* position of result i: after the higher scores, and after
                \* the equal scores that come earlier in the results list
                rank(i) == 1 + Cardinality({k \in kept :
                               \/ match_results[k].score > match_results[i].score
                               \/ /\ match_results[k].score = match_results[i].score
                                  /\ k < i})
            IN  /\ w \in DOMAIN recommendations
                /\ Len(recommendations[w]) = Cardinality(kept)
                /\ \A i \in kept :
                       recommendations[w][rank(i)] = match_results[i].team_member

\* C6 witness: recommendations made where, for one work stream, a result
\* below 50 is left out and a later result outranks an earlier one, and, for
\* some work stream, two kept results tie.
C6_Witness ==
    /\ pc = "done"
    /\ \E i, k \in DOMAIN match_results :
           /\ i < k
           /\ match_results[i].work_stream = match_results[k].work_stream
           /\ match_results[i].score >= 50
           /\ match_results[i].score < match_results[k].score
           /\ \E x \in DOMAIN match_results :
                  /\ match_results[x].work_stream = match_results[i].work_stream
                  /\ match_results[x].score < 50
    /\ \E i, k \in DOMAIN match_results :
           /\ i < k
           /\ match_results[i].work_stream = match_results[k].work_stream
           /\ match_results[i].score = match_results[k].score
           /\ match_results[i].score > 50
           /\ match_results[i].team_member # match_results[k].team_member

\* analyze_gaps has just returned
GapsAnalyzed == pc = "generate_report"

\* C7: in every SkillCoverage, coverage_level is determined by the number of
\* distinct names in covered_by: 0 none, 1 partial, 2 good, 3 or more strong.
C7_LevelFromCoverCount ==
    GapsAnalyzed =>
        \A i \in DOMAIN gap_analysis.skill_coverage :
            LET sc == gap_analysis.skill_coverage[i]
                n == Cardinality(Range(sc.covered_by))
            IN  sc.coverage_level =
                    (CASE n = 0 -> "none"
                       [] n = 1 -> "partial"
                       [] n = 2 -> "good"
                       [] OTHER -> "strong")

\* C7 witness: one analysis holding a skill covered by three names and
\* skills covered by two and by one.
C7_Witness ==
    /\ GapsAnalyzed
    /\ \A n \in 1..3 :
           \E i \in DOMAIN gap_analysis.skill_coverage :
               Cardinality(Range(gap_analysis.skill_coverage[i].covered_by)) = n

\* some entry of the profile's pooled skill set (skills plus strengths)
\* fuzzy-matches the required skill
ProfileCovers(profile, req_skill) ==
    \E s \in Range(profile.skills) \cup Range(profile.strengths) :
        call_skills_match(req_skill, s)

\* a list holds no element twice
NoRepeats(lst) == \A i, j \in DOMAIN lst : lst[i] = lst[j] => i = j

\* the profile of the spec's example that holds "leadership"
HoldsLeadership(profile) == ListIn(w_leadership, profile.skills \o profile.strengths)

\* the profile of the spec's example that holds "team leadership"
HoldsTeamLeadership(profile) ==
    \E s \in Range(profile.skills) \cup Range(profile.strengths) :
        normalize_skill(s) = w_team_leadership

\* the example of C8: two profiles of different names, one holding
\* "leadership", the other "team leadership"; then both names cover the
\* required skill "leadership", whose level is "good"
LeadershipExample ==
    (/\ Len(profiles) = 2
     /\ profiles[1].name # profiles[2].name
     /\ \E a, b \in DOMAIN profiles :
            HoldsLeadership(profiles[a]) /\ HoldsTeamLeadership(profiles[b]))
    =>
    \A i \in DOMAIN gap_analysis.skill_coverage :
        gap_analysis.skill_coverage[i].skill = w_leadership =>
            /\ Range(gap_analysis.skill_coverage[i].covered_by)
                   = {profiles[1].name, profiles[2].name}
            /\ gap_analysis.skill_coverage[i].coverage_level = "good"

\* C8 as stated: covered_by holds each name at most once, and holds a
\* profile's name if and only if an entry of that profile's own pooled skill
\* set fuzzy-matches the required skill.
C8_Original_CoveredByOwnSkills ==
    GapsAnalyzed =>
        /\ \A i \in DOMAIN gap_analysis.skill_coverage :
               LET sc == gap_analysis.skill_coverage[i]
               IN  /\ NoRepeats(sc.covered_by)
                   /\ \A p \in DOMAIN profiles :
                          ListIn(profiles[p].name, sc.covered_by)
                              <=> ProfileCovers(profiles[p], sc.skill)
        /\ LeadershipExample

\* C8 amended: covered_by holds each name at most once, and holds a name if
\* and only if at least one profile bearing that name has a pooled skill that
\* fuzzy-matches the required skill (profiles are told apart by name only);
\* the leadership example holds for two profiles of different names.
C8_CoveredByName ==
    GapsAnalyzed =>
        /\ \A i \in DOMAIN gap_analysis.skill_coverage :
               LET sc == gap_analysis.skill_coverage[i]
               IN  /\ NoRepeats(sc.covered_by)
                   /\ Range(sc.covered_by) =
                          {profiles[p].name : p \in
                              {q \in DOMAIN profiles : ProfileCovers(profiles[q], sc.skill)}}
        /\ LeadershipExample

\* C8 witness: the leadership example: two profiles of different names, one
\* with "leadership", one with "team leadership", and "leadership" required.
C8_Witness ==
    /\ GapsAnalyzed
    /\ Len(profiles) = 2
    /\ profiles[1].name # profiles[2].name
    /\ \E a, b \in DOMAIN profiles :
           HoldsLeadership(profiles[a]) /\ HoldsTeamLeadership(profiles[b])
    /\ \E i \in DOMAIN gap_analysis.skill_coverage :
           /\ gap_analysis.skill_coverage[i].skill = w_leadership
           /\ gap_analysis.skill_coverage[i].coverage_level = "good"

\* the lists of a list of lists, one after the other
RECURSIVE Concat(_)
Concat(lists) == IF lists = << >> THEN << >> ELSE Head(lists) \o Concat(Tail(lists))

\* the elements of lst in order, each at its first occurrence only
FirstOccurrences(lst) ==
    LET first == {i \in DOMAIN lst : \A j \in 1..(i - 1) : lst[j] # lst[i]}
        nth(k) == CHOOSE i \in first : Cardinality({j \in first : j <= i}) = k
    IN  [k \in 1..Cardinality(first) |-> lst[nth(k)]]

\* every required skill, normalized, in source order: the work streams in
\* order, then the critical list
RequiredInOrder ==
    LET raw == Concat([j \in DOMAIN project_spec.work_streams |->
                          project_spec.work_streams[j].required_skills])
                   \o project_spec.critical_skills
    IN  [i \in DOMAIN raw |-> normalize_skill(raw[i])]

\* C9: analyze_gaps produces exactly one SkillCoverage entry per distinct
\* normalized required skill of the work streams and the critical list:
\* spellings that differ in case or surrounding whitespace and repeats across
\* sources collapse, none is left out, and the entries are in order of first
\* occurrence (work streams in order, then critical skills).
C9_OneEntryPerRequiredSkill ==
    GapsAnalyzed =>
        /\ gap_analysis.all_required_skills = FirstOccurrences(RequiredInOrder)
        /\ Len(gap_analysis.skill_coverage) = Len(gap_analysis.all_required_skills)
        /\ \A i \in DOMAIN gap_analysis.skill_coverage :
               gap_analysis.skill_coverage[i].skill = gap_analysis.all_required_skills[i]

\* C9 witness: two work streams and a critical list that spell one skill in
\* different ways, repeat a skill across sources, and add a new critical one.
C9_Witness ==
    /\ GapsAnalyzed
    /\ Len(project_spec.work_streams) = 2
    /\ \E a \in Range(project_spec.work_streams[1].required_skills),
          b \in Range(project_spec.work_streams[2].required_skills) :
           a # b /\ normalize_skill(a) = normalize_skill(b)
    /\ \E c \in Range(project_spec.critical_skills) :
           \E a \in Range(project_spec.work_streams[1].required_skills) :
               a # c /\ normalize_skill(a) = normalize_skill(c)
    /\ \E c \in Range(project_spec.critical_skills) :
           \A j \in DOMAIN project_spec.work_streams :
               \A a \in Range(project_spec.work_streams[j].required_skills) :
                   normalize_skill(a) # normalize_skill(c)
    /\ Len(gap_analysis.skill_coverage) < Len(RequiredInOrder)

\* every team skill, normalized, in order: profiles in order, each one's
\* skills and then strengths
TeamSkillsInOrder ==
    LET raw == Concat([p \in DOMAIN profiles |->
                          profiles[p].skills \o profiles[p].strengths])
    IN  [i \in DOMAIN raw |-> normalize_skill(raw[i])]

\* the distinct team skills that match no required skill, in order of first
\* appearance
StrengthCandidates ==
    SelectSeq(FirstOccurrences(TeamSkillsInOrder),
              LAMBDA s : \A q \in Range(RequiredInOrder) : ~call_skills_match(s, q))

\* C10: team_strengths is exactly the first 10 (or fewer, if fewer exist) of
\* the distinct normalized team skills that fuzzy-match no required skill, in
\* order of first appearance over profiles and their skills-then-strengths;
\* it is never longer than 10 and never holds a skill matching a required one.
C10_TeamStrengthsTopTen ==
    GapsAnalyzed =>
        /\ gap_analysis.team_strengths =
               SubSeq(StrengthCandidates, 1,
                      IF Len(StrengthCandidates) <= 10 THEN Len(StrengthCandidates) ELSE 10)
        /\ Len(gap_analysis.team_strengths) <= 10
        /\ \A s \in Range(gap_analysis.team_strengths) :
               \A q \in Range(RequiredInOrder) : ~call_skills_match(s, q)

\* C10 witness: more than 10 candidates, so the list is cut to 10, while some
\* team skills are left out because they match a required skill and one team
\* skill occurs twice.
C10_Witness ==
    /\ GapsAnalyzed
    /\ Len(StrengthCandidates) > 10
    /\ Len(gap_analysis.team_strengths) = 10
    /\ Len(FirstOccurrences(TeamSkillsInOrder)) < Len(TeamSkillsInOrder)
    /\ \E s \in Range(TeamSkillsInOrder) :
           \E q \in Range(RequiredInOrder) : call_skills_match(s, q)

(***************************************************************************)
(* Claims about calculate_match_scores on a whole team and project (under  *)
(* Spec).                                                                  *)
(***************************************************************************)
\* calculate_match_scores has returned
MatchesScored == pc \in {"analyze_gaps", "generate_report", "done"}

\* C11: calculate_match_scores returns exactly one MatchResult per (profile,
\* work stream) pair: its length is |profiles| x |work_streams|, and the
\* result at index i * |work_streams| + j (counting from 0) is the one of
\* profile i and work stream j, profiles being the outer loop; an empty
\* profile list or an empty work-stream list gives the empty list.
C11_OneResultPerPairProfilesOuter ==
    MatchesScored =>
        LET P == Len(profiles)
            W == Len(project_spec.work_streams)
        IN  /\ Len(match_results) = P * W
            /\ (P = 0 \/ W = 0) => match_results = << >>
            /\ \A i \in 0..(P - 1), j \in 0..(W - 1) :
                   LET r == match_results[i * W + j + 1]
                       profile == profiles[i + 1]
                       work_stream == project_spec.work_streams[j + 1]
                   IN  /\ r.team_member = profile.name
                       /\ r.work_stream = work_stream.name
                       /\ r = calculate_match_score(profile, work_stream)

\* C11 witness: a team of at least two profiles of different names scored
\* against two work streams, the second profile's first result differing from
\* the first profile's second.
C11_Witness ==
    /\ pc = "analyze_gaps"
    /\ Len(profiles) >= 2
    /\ Len(project_spec.work_streams) = 2
    /\ profiles[1].name # profiles[2].name
    /\ Len(match_results) >= 4
    /\ match_results[2] # match_results[3]
    /\ match_results[2].team_member = profiles[1].name
    /\ match_results[3].team_member = profiles[2].name

(***************************************************************************)
(* Claims about the keys of get_recommended_assignments (under Spec).      *)
(***************************************************************************)
\* the match results of work stream name w that reach the threshold of 50
Qualifying(w) ==
    {i \in DOMAIN match_results :
        match_results[i].work_stream = w /\ match_results[i].score >= 50}

\* C12: the mapping returned by get_recommended_assignments has a key for
\* every work stream name of the project spec and no other key; a work stream
\* with no match result of score >= 50 (also when there is no match result at
\* all) maps to the empty list; a spec without work streams gives the empty
\* mapping.
C12_KeysAreWorkStreamNames ==
    pc = "done" =>
        LET names == {project_spec.work_streams[j].name :
                         j \in DOMAIN project_spec.work_streams}
        IN  /\ DOMAIN recommendations = names
            /\ \A w \in names :
                   Qualifying(w) = {} => recommendations[w] = << >>
            /\ project_spec.work_streams = << >> => recommendations = << >>

\* C12 witness: a team with at least one profile, and recommendations in
\* which one work stream has a recommended member and another, none of whose
\* results reaches 50, maps to the empty list.
C12_Witness ==
    /\ pc = "done"
    /\ profiles # << >>
    /\ \E v, w \in DOMAIN recommendations :
           /\ recommendations[v] # << >>
           /\ recommendations[w] = << >>
           /\ Qualifying(w) = {}
           /\ \E i \in DOMAIN match_results : match_results[i].work_stream = w

(***************************************************************************)
(* Further claims about calculate_match_score (under SpecScore).           *)
(***************************************************************************)
\* C13: for a work stream with at least one required skill, the rationale is
\* chosen by the final score: >= 80 "Strong match", 60..79 "Good match",
\* 40..59 "Partial match", below 40 "Limited match"; in every band it carries
\* the counts M/N, M the number of matched required skills and N the number
\* of required skills.
C13_RationaleBandByFinalScore ==
    PairScored /\ project_spec.work_streams[1].required_skills # << >> =>
        LET r == match_results[1]
            ws == project_spec.work_streams[1]
        IN  /\ r.score >= 80 => r.rationale.band = "Strong match"
            /\ r.score \in 60..79 => r.rationale.band = "Good match"
            /\ r.score \in 40..59 => r.rationale.band = "Partial match"
            /\ r.score < 40 => r.rationale.band = "Limited match"
            /\ r.rationale.matching = MatchedCount(profiles[1], ws)
            /\ r.rationale.required = Len(ws.required_skills)

\* C13 witness: a pair whose base score of 75 (3 of 4 matched) is brought to
\* exactly 80 by the experience bonus, and rated a strong match.
C13_Witness ==
    /\ PairScored
    /\ Len(project_spec.work_streams[1].required_skills) = 4
    /\ MatchedCount(profiles[1], project_spec.work_streams[1]) = 3
    /\ profiles[1].experience_years = 5
    /\ match_results[1].score = 80
    /\ match_results[1].rationale =
           [band |-> "Strong match", matching |-> 3, required |-> 4]

\* the required skill at position i is fuzzy-matched by some pooled skill
\* (skills plus strengths) of the profile
RequiredIsMatched(profile, work_stream, i) ==
    \E s \in Range(profile.skills) \cup Range(profile.strengths) :
        call_skills_match(work_stream.required_skills[i], s)

\* C15: matching_skills and missing_skills partition required_skills: a
\* required skill is in matching_skills iff some pooled profile skill
\* fuzzy-matches it and in missing_skills iff none does; no required skill
\* counted as matched is reported missing, whatever its letter case or
\* surrounding whitespace; and the two lengths add up to the length of
\* required_skills, duplicates included.
C15_MatchingAndMissingPartition ==
    PairScored /\ project_spec.work_streams[1].required_skills # << >> =>
        LET p == profiles[1]
            ws == project_spec.work_streams[1]
            required == ws.required_skills
            r == match_results[1]
        IN  /\ \A i \in DOMAIN required :
                   /\ ListIn(required[i], r.matching_skills)
                          <=> RequiredIsMatched(p, ws, i)
                   /\ ListIn(required[i], r.missing_skills)
                          <=> ~RequiredIsMatched(p, ws, i)
            /\ Range(r.matching_skills) \cap Range(r.missing_skills) = {}
            /\ r.matching_skills =
                   SelectSeq(required, LAMBDA s : ListIn(s, r.matching_skills))
            /\ r.missing_skills =
                   SelectSeq(required, LAMBDA s : ListIn(s, r.missing_skills))
            /\ Len(r.matching_skills) + Len(r.missing_skills) = Len(required)

\* C15 witness: required skills that name one skill twice in the same
\* spelling and once more in another case and with surrounding blanks, all
\* three matched, next to a skill that is missing.
C15_Witness ==
    /\ PairScored
    /\ \E i, j, k, m \in DOMAIN project_spec.work_streams[1].required_skills :
           LET required == project_spec.work_streams[1].required_skills
           IN  /\ i # j
               /\ required[i] = w_python
               /\ required[j] = w_python
               /\ required[k] = w_Python_padded
               /\ required[m] = w_SQL
    /\ match_results[1].matching_skills = <<w_python, w_python, w_Python_padded>>
           \/ match_results[1].matching_skills = <<w_python, w_Python_padded, w_python>>
           \/ match_results[1].matching_skills = <<w_Python_padded, w_python, w_python>>
    /\ match_results[1].missing_skills = <<w_SQL>>

(***************************************************************************)
(* Claim about normalize_skill (under SpecNormalize).                      *)
(***************************************************************************)
\* C14: normalize_skill is idempotent: normalizing the string it returned
\* gives that string again.
C14_NormalizeIdempotent ==
    pc = "normalize_skill_done" => normalize_skill(normal_form) = normal_form

\* C14 witness: a string with a capital and whitespace at both ends, whose
\* normal form is neither the string itself nor empty.
C14_Witness ==
    /\ pc = "normalize_skill_done"
    /\ Len(skill_a) >= 3
    /\ Head(skill_a) \in Whitespace
    /\ skill_a[Len(skill_a)] \in Whitespace
    /\ \E i \in DOMAIN skill_a : skill_a[i] \in Range(UpperCase)
    /\ normal_form # << >>
    /\ normal_form # skill_a

(***************************************************************************)
(* Claim about the three coverage lists of analyze_gaps (under Spec).      *)
(***************************************************************************)
\* the skills of the coverage entries whose coverage_level is in levels, in
\* entry order
SkillsAtLevel(levels) ==
    LET entries == SelectSeq(gap_analysis.skill_coverage,
                             LAMBDA e : e.coverage_level \in levels)
    IN  [i \in DOMAIN entries |-> entries[i].skill]

\* C18: uncovered_skills, partially_covered and well_covered are pairwise
\* disjoint and together hold exactly the skills of all_required_skills; a
\* skill is in uncovered_skills iff its coverage_level is "none", in
\* partially_covered iff "partial", in well_covered iff "good" or "strong";
\* skill_coverage has the length and the skill order of all_required_skills.
C18_CoverageListsPartitionRequired ==
    GapsAnalyzed =>
        LET g == gap_analysis
            U == Range(g.uncovered_skills)
            P == Range(g.partially_covered)
            W == Range(g.well_covered)
        IN  /\ U \cap P = {} /\ U \cap W = {} /\ P \cap W = {}
            /\ U \cup P \cup W = Range(g.all_required_skills)
            /\ Len(g.uncovered_skills) + Len(g.partially_covered)
                   + Len(g.well_covered) = Len(g.all_required_skills)
            /\ g.uncovered_skills = SkillsAtLevel({"none"})
            /\ g.partially_covered = SkillsAtLevel({"partial"})
            /\ g.well_covered = SkillsAtLevel({"good", "strong"})
            /\ \A i \in DOMAIN g.skill_coverage :
                   g.skill_coverage[i].coverage_level
                       \in {"none", "partial", "good", "strong"}
            /\ Len(g.skill_coverage) = Len(g.all_required_skills)
            /\ \A i \in DOMAIN g.skill_coverage :
                   g.skill_coverage[i].skill = g.all_required_skills[i]

\* C18 witness: an analysis of at least four required skills with an
\* uncovered skill, two partially covered ones and a well covered one, the
\* lists interleaving in the order of the required skills.
C18_Witness ==
    /\ GapsAnalyzed
    /\ Len(gap_analysis.skill_coverage) >= 4
    /\ gap_analysis.uncovered_skills # << >>
    /\ Len(gap_analysis.partially_covered) >= 2
    /\ gap_analysis.well_covered # << >>
    /\ \E i, j, k \in DOMAIN gap_analysis.skill_coverage :
           /\ i < j /\ j < k
           /\ gap_analysis.skill_coverage[i].coverage_level = "partial"
           /\ gap_analysis.skill_coverage[j].coverage_level = "good"
           /\ gap_analysis.skill_coverage[k].coverage_level = "partial"

(***************************************************************************)
(* Claim about required_by (under SpecGaps).                               *)
(***************************************************************************)
\* the names of the work streams requiring the normalized skill s, one entry
\* per occurrence, in work-stream order
RequiringWorkStreams(s) ==
    Concat([j \in DOMAIN project_spec.work_streams |->
               LET ws == project_spec.work_streams[j]
                   hits == SelectSeq(ws.required_skills,
                                     LAMBDA q : normalize_skill(q) = s)
               IN  [i \in DOMAIN hits |-> ws.name]])

\* the normalized skill s occurs in critical_skills
IsCritical(s) ==
    \E c \in Range(project_spec.critical_skills) : normalize_skill(c) = s

\* C16 as stated: required_by lists the names of the requiring work streams,
\* one entry per occurrence in work-stream order; "Critical" appears in
\* required_by only when the skill occurs in critical_skills and in no work
\* stream, and then required_by is exactly ["Critical"]; a skill required by
\* a work stream and by the critical list carries no "Critical".
C16_Original_CriticalOnlyAsLabel ==
    GapsAnalyzed =>
        \A i \in DOMAIN gap_analysis.skill_coverage :
            LET e == gap_analysis.skill_coverage[i]
                by_ws == RequiringWorkStreams(e.skill)
            IN  /\ by_ws # << >> => e.required_by = by_ws
                /\ ListIn("Critical", e.required_by) =>
                       /\ IsCritical(e.skill)
                       /\ by_ws = << >>
                       /\ e.required_by = <<"Critical">>
                /\ by_ws # << >> /\ IsCritical(e.skill) =>
                       ~ListIn("Critical", e.required_by)

\* C16 amended: required_by is the list of the names of the requiring work
\* streams, one entry per occurrence in work-stream order, when some work
\* stream requires the skill (an entry "Critical" is then the name of a work
\* stream called "Critical", whether or not the skill is in the critical
\* list); otherwise the skill occurs in critical_skills and required_by is
\* exactly ["Critical"], however often the critical list repeats it.
C16_RequiredByWorkStreamsElseCritical ==
    GapsAnalyzed =>
        \A i \in DOMAIN gap_analysis.skill_coverage :
            LET e == gap_analysis.skill_coverage[i]
                by_ws == RequiringWorkStreams(e.skill)
            IN  IF by_ws # << >>
                THEN e.required_by = by_ws
                ELSE IsCritical(e.skill) /\ e.required_by = <<"Critical">>

\* C16 witness: a project with a skill required twice by one work stream, a
\* skill that the critical list alone names, twice, and a skill named by a
\* work stream and by the critical list.
C16_Witness ==
    /\ GapsAnalyzed
    /\ \E i, j, k \in DOMAIN gap_analysis.skill_coverage :
           LET a == gap_analysis.skill_coverage[i]
               b == gap_analysis.skill_coverage[j]
               c == gap_analysis.skill_coverage[k]
           IN  /\ Len(a.required_by) >= 2
               /\ a.required_by[1] = a.required_by[2]
               /\ b.required_by = <<"Critical">>
               /\ RequiringWorkStreams(b.skill) = << >>
               /\ Cardinality({x \in DOMAIN project_spec.critical_skills :
                      normalize_skill(project_spec.critical_skills[x]) = b.skill}) = 2
               /\ IsCritical(c.skill)
               /\ RequiringWorkStreams(c.skill) # << >>
               /\ c.required_by = RequiringWorkStreams(c.skill)

(***************************************************************************)
(* Claim about the extractors' defaults (under SpecMain).                  *)
(***************************************************************************)
\* the default profile and the default project specification
DefaultProfile ==
    [name |-> "Unknown", skills |-> << >>, strengths |-> << >>,
     experience_years |-> 0]

DefaultSpec ==
    [project_name |-> "Unknown Project", work_streams |-> << >>,
     critical_skills |-> << >>]

\* the log entries of the team documents that were turned into a profile
Extracted == SelectSeq(team_log, LAMBDA e : e.printed = "OK")

\* C17: when the extraction service's answer is not parseable JSON,
\* extract_profile returns the default profile (name "Unknown", no skills, no
\* strengths, experience_years 0) and extract_project_spec the default spec
\* (project_name "Unknown Project", no work streams, no critical skills), and
\* neither ends the run; a default spec gives an empty match-result list and
\* no required skills, and a default profile scores 0 on every work stream
\* that has required skills.
C17_UnparseableAnswerGivesDefaults ==
    /\ Len(profiles) = Len(Extracted)
    /\ \A k \in DOMAIN Extracted :
           Extracted[k].response.kind = "text" => profiles[k] = DefaultProfile
    /\ spec_response.kind = "text" =>
           /\ project_spec = DefaultSpec
           /\ exit_status = << >>
    /\ project_spec = DefaultSpec /\ MatchesScored => match_results = << >>
    /\ project_spec = DefaultSpec /\ pc \in {"generate_report", "done"} =>
           /\ gap_analysis.all_required_skills = << >>
           /\ gap_analysis.skill_coverage = << >>
           /\ gap_analysis.uncovered_skills = << >>
    /\ project_spec = DefaultSpec /\ pc = "done" => recommendations = << >>
    /\ MatchesScored =>
           \A i \in DOMAIN profiles, j \in DOMAIN project_spec.work_streams :
               /\ profiles[i] = DefaultProfile
               /\ project_spec.work_streams[j].required_skills # << >>
               => match_results[(i - 1) * Len(project_spec.work_streams) + j].score = 0

\* C17 witness: a finished run in which the service answered one team
\* document with text that is not JSON and another with a profile, and the
\* default profile was scored against work streams that have required skills.
C17_Witness ==
    /\ pc = "done"
    /\ \E k \in DOMAIN Extracted :
           Extracted[k].response.kind = "text" /\ profiles[k] = DefaultProfile
    /\ \E k \in DOMAIN profiles : profiles[k] # DefaultProfile
    /\ \E i \in DOMAIN match_results :
           /\ match_results[i].team_member = "Unknown"
           /\ match_results[i].score = 0
           /\ match_results[i].missing_skills # << >>

(***************************************************************************)
(* Claim about main() (under SpecMain).                                    *)
(***************************************************************************)
\* the analysis steps and the report
AnalysisReached ==
    pc \in {"calculate_match_scores", "analyze_gaps", "generate_report", "done"}

\* nothing of the analysis or the report has been produced
NothingAnalysed ==
    /\ match_results = << >>
    /\ gap_analysis = NoGapAnalysis
    /\ recommendations = << >>

\* some project document was read and its text is not blank
SomeProjectText ==
    \E i \in DOMAIN project_folder.documents :
        /\ project_folder.documents[i].readable
        /\ Strip(project_folder.documents[i].text) # << >>

\* the loop over the team documents has ended
TeamLoopEnded ==
    pc \in {"project_documents", "extract_project_spec"} \/ AnalysisReached

\* the loop over the project documents has ended
ProjectLoopEnded == pc = "extract_project_spec" \/ AnalysisReached

\* a document on which parsing or extraction raises is skipped (FAILED is
\* printed, nothing is added) and the documents after it are still processed
FailingDocumentsSkipped ==
    /\ Len(team_log) <= Len(team_docs)
    /\ TeamLoopEnded => Len(team_log) = Len(team_docs)
    /\ \A i \in DOMAIN team_log :
           /\ team_log[i].doc = team_docs[i].name
           /\ ~team_docs[i].readable => team_log[i].printed = "FAILED"
    /\ Len(profiles) = Len(Extracted)
    /\ Len(project_log) <= Len(project_docs)
    /\ ProjectLoopEnded => Len(project_log) = Len(project_docs)
    /\ \A i \in DOMAIN project_log :
           /\ project_log[i].doc = project_docs[i].name
           /\ project_log[i].printed =
                  (IF project_docs[i].readable THEN "OK" ELSE "FAILED")

\* the run has exited with status 1 and nothing was analysed
ExitedWithStatus1 ==
    pc = "exit" => exit_status = <<1>> /\ NothingAnalysed

\* C19: in every run of main, the analysis steps are reached only after at
\* least one team document was turned into a profile and at least one project
\* document yielded non-blank text; a team or project document whose parsing
\* or extraction raises is skipped and the remaining documents are still
\* processed; and if the API key, either folder, the documents of either
\* folder, every profile, or all project text is missing, the run ends with
\* exit status 1 before any analysis or report is produced.
C19_Original_AnalysisOnlyWithProjectText ==
    /\ AnalysisReached =>
           /\ Extracted # << >> /\ profiles # << >>
           /\ SomeProjectText
    /\ FailingDocumentsSkipped
    /\ ExitedWithStatus1
    /\ \/ ~api_key
       \/ ~team_folder.exists
       \/ ~project_folder.exists
       \/ team_folder.documents = << >>
       \/ project_folder.documents = << >>
       \/ (TeamLoopEnded /\ profiles = << >>)
       \/ ~SomeProjectText
       => ~AnalysisReached /\ NothingAnalysed

====
